---------------------------- MODULE Spec2Model ----------------------------
(***************************************************************************)
(* Model of photutils/background/core.py: the eight scalar background and  *)
(* background-rms estimators and their shared sigma-clipping step.         *)
(*                                                                         *)
(* An estimator instance is the record `est` (the fields assigned by       *)
(* BackgroundBase.__init__ and by the two biweight subclasses).  A call of *)
(* calc_background / calc_background_rms is followed step by step: the     *)
(* `if self.sigclip` branch, the iterations of the clipping loop, and the  *)
(* final formula.                                                          *)
(*                                                                         *)
(* Scalars are exact.  A number is <<"num", p, q>> (the rational p/q in    *)
(* lowest terms, q > 0), a standard deviation is <<"sqrt", p, q>> (the     *)
(* square root of p/q), and numpy's masked constant is <<"masked">>.       *)
(* Optional fields are <<>> (None) or <<v>>.                               *)
(*                                                                         *)
(* The arithmetic is that of the reals, not of floats: a comparison that   *)
(* is an equality here may round either way in the program.  The masked    *)
(* constant also stands for the NaN that a primitive may return on an      *)
(* array without unmasked elements.  The primitives of numpy and astropy   *)
(* (mean, median, std, mad_std, the biweights, sigma_clip) are not part of *)
(* the file; they are modelled by their contracts.                         *)
(***************************************************************************)
EXTENDS Integers, Sequences, FiniteSets, TLC

VARIABLES est,        \* the estimator instance (self)
          est0,       \* history: the instance as constructed
          input,      \* the caller's array: [data, mask]
          arg,        \* history: the caller's array as passed to the call
          pc,         \* position of the call: idle, clip, formula, done
          filtered,   \* mask of the local `data` of the method
          kw,         \* keyword arguments in effect inside sigma_clip
          niter,      \* clipping iterations performed in this call
          lastrej,    \* unmasked count before the last iteration
          clipcalls,  \* invocations of self.sigma_clip in this call
          result,     \* value returned by the call
          divided,    \* whether the division by _std was evaluated
          probe,      \* history: input whose results are compared (or None)
          seen,       \* history: first result returned for the probe
          phase       \* history: 0 probe not yet returned, 1 returned once,
                      \* 2 then another input returned, 3 then the probe again

vars == <<est, est0, input, arg, pc, filtered, kw, niter, lastrej,
          clipcalls, result, divided, probe, seen, phase>>

-----------------------------------------------------------------------------
(* Bounds of the model and constants of the program.                       *)

MaxLen == 2
MaxVal == 1

DefaultSigma == 3
DefaultIters == 5
DefaultLocationC == 6
DefaultMidvarianceC == 9

None == <<>>
Some(v) == <<v>>

-----------------------------------------------------------------------------
(* Exact arithmetic on scalars.                                            *)

Abs(x) == IF x < 0 THEN -x ELSE x

RECURSIVE GCD(_, _)
GCD(a, b) == IF b = 0 THEN a ELSE GCD(b, a % b)

Rat(p, q) ==
    LET s == IF q < 0 THEN -1 ELSE 1
        g == GCD(Abs(p), Abs(q))
    IN  <<(s * p) \div g, (s * q) \div g>>

Masked == <<"masked">>
Num(r) == <<"num", r[1], r[2]>>
Root(r) == <<"sqrt", r[1], r[2]>>
IsMasked(x) == x[1] = "masked"

\* k * x for a float literal k = <<p, q>>
Times(k, x) ==
    IF IsMasked(x) THEN Masked ELSE Num(Rat(k[1] * x[2], k[2] * x[3]))

\* x - y
Minus(x, y) ==
    IF IsMasked(x) \/ IsMasked(y) THEN Masked
    ELSE Num(Rat(x[2] * y[3] - y[2] * x[3], x[3] * y[3]))

\* bool(...) of a comparison result: "True", "False" or "masked"
Truth(b) == b = "True"

\* _std == 0
EqZero(s) ==
    IF IsMasked(s) THEN "masked" ELSE IF s[2] = 0 THEN "True" ELSE "False"

\* (np.abs(x) / s) < k, for s = sqrt(v) with v > 0 and k = <<p, q>> > 0:
\* x^2 / v < k^2
AbsOverRootLess(x, s, k) ==
    IF IsMasked(x) \/ IsMasked(s) THEN "masked"
    ELSE IF x[2] * x[2] * s[3] * k[2] * k[2] < k[1] * k[1] * s[2] * x[3] * x[3]
         THEN "True" ELSE "False"

\* (np.abs(x) / s) > k, both unmasked
AbsOverRootMore(x, s, k) ==
    x[2] * x[2] * s[3] * k[2] * k[2] > k[1] * k[1] * s[2] * x[3] * x[3]

\* a > b * sqrt(D) for integers a, b and D >= 0
GtRoot(a, b, D) ==
    IF b >= 0 THEN a > 0 /\ a * a > b * b * D
    ELSE a >= 0 \/ a * a < b * b * D

-----------------------------------------------------------------------------
(* Masked arrays and the statistical primitives.                           *)

RECURSIVE compressed(_, _)
compressed(d, m) ==
    IF d = <<>> THEN <<>>
    ELSE (IF m[1] THEN <<>> ELSE <<d[1]>>) \o compressed(Tail(d), Tail(m))

count(d, m) == Len(compressed(d, m))

RECURSIVE Sum(_)
Sum(xs) == IF xs = <<>> THEN 0 ELSE xs[1] + Sum(Tail(xs))

RECURSIVE SumSq(_)
SumSq(xs) == IF xs = <<>> THEN 0 ELSE xs[1] * xs[1] + SumSq(Tail(xs))

RECURSIVE Insert(_, _)
Insert(x, s) ==
    IF s = <<>> THEN <<x>>
    ELSE IF x <= s[1] THEN <<x>> \o s
    ELSE <<s[1]>> \o Insert(x, Tail(s))

RECURSIVE Sort(_)
Sort(xs) == IF xs = <<>> THEN <<>> ELSE Insert(xs[1], Sort(Tail(xs)))

\* twice the median of a non-empty sequence
Median2(xs) ==
    LET s == Sort(xs)
        n == Len(xs)
    IN  s[(n + 1) \div 2] + s[(n \div 2) + 1]

\* n^2 times the population variance of a non-empty sequence
Disp(xs) == Len(xs) * SumSq(xs) - Sum(xs) * Sum(xs)

\* the mask of an array without masked elements
NoMask(d) == [i \in 1..Len(d) |-> FALSE]

ma_mean(d, m) ==
    LET xs == compressed(d, m)
    IN  IF xs = <<>> THEN Masked ELSE Num(Rat(Sum(xs), Len(xs)))

ma_median(d, m) ==
    LET xs == compressed(d, m)
    IN  IF xs = <<>> THEN Masked ELSE Num(Rat(Median2(xs), 2))

ma_std(d, m) ==
    LET xs == compressed(d, m)
    IN  IF xs = <<>> THEN Masked
        ELSE Root(Rat(Disp(xs), Len(xs) * Len(xs)))

\* 1.4826 * median(|x - median(x)|)
mad_std(d, m) ==
    LET xs == compressed(d, m)
        m2 == Median2(xs)
        dev == [i \in 1..Len(xs) |-> Abs(2 * xs[i] - m2)]
    IN  IF xs = <<>> THEN Masked
        ELSE Num(Rat(7413 * Median2(dev), 5000 * 4))

\* The biweight primitives are applied to the unmasked values with c and M
\* passed through; their value is kept as the application itself.
biweight_location(d, m, c, M) ==
    LET xs == compressed(d, m)
    IN  IF xs = <<>> THEN Masked ELSE <<"biweight_location", xs, c, M>>

biweight_midvariance(d, m, c, M) ==
    LET xs == compressed(d, m)
    IN  IF xs = <<>> THEN Masked ELSE <<"biweight_midvariance", xs, c, M>>

-----------------------------------------------------------------------------
(* The estimator classes.                                                  *)

Kinds == {"MeanBackground", "MedianBackground", "MMMBackground",
          "SExtractorBackground", "BiweightLocationBackground",
          "StdBackgroundRMS", "MADStdBackgroundRMS",
          "BiweightMidvarianceBackgroundRMS"}

\* BackgroundBase.__init__, and the c and M of the two biweight classes
\* (the other classes have neither field: None).
BackgroundBase(kind, sigclip, sigma, sigma_lower, sigma_upper, iters, c, M) ==
    [kind |-> kind, sigclip |-> sigclip, sigma |-> sigma,
     sigma_lower |-> sigma_lower, sigma_upper |-> sigma_upper,
     iters |-> iters, c |-> c, M |-> M]

DefaultC(kind) ==
    IF kind = "BiweightLocationBackground" THEN Some(DefaultLocationC)
    ELSE IF kind = "BiweightMidvarianceBackgroundRMS"
         THEN Some(DefaultMidvarianceC)
    ELSE None

HasM(kind) == kind \in {"BiweightLocationBackground",
                        "BiweightMidvarianceBackgroundRMS"}

\* sigma_clip_call with the two overrides handed over crosswise
sigma_clip_call_crossed(self) ==
    [sigma |-> self.sigma, sigma_lower |-> self.sigma_upper,
     sigma_upper |-> self.sigma_lower, iters |-> self.iters]

\* sigma_clip_call without the iteration cap
sigma_clip_call_uncapped(self) ==
    [sigma |-> self.sigma, sigma_lower |-> self.sigma_lower,
     sigma_upper |-> self.sigma_upper, iters |-> None]

\* self.sigma_clip(data): the keyword arguments handed to sigma_clip
sigma_clip_call(self) ==
    [sigma |-> self.sigma, sigma_lower |-> self.sigma_lower,
     sigma_upper |-> self.sigma_upper, iters |-> self.iters]

\* sigma_clip's own defaulting of its thresholds
sigma_clip_defaults(k) ==
    [lo |-> IF k.sigma_lower = None THEN k.sigma ELSE k.sigma_lower[1],
     hi |-> IF k.sigma_upper = None THEN k.sigma ELSE k.sigma_upper[1],
     iters |-> k.iters]

\* One clipping iteration on the working mask f: center = median and
\* scale = population std of the unmasked values, both recomputed.
perform_clip(d, f, lo, hi) ==
    LET xs == compressed(d, f)
        n == Len(xs)
        m2 == Median2(xs)
        D == Disp(xs)
    IN  IF n = 0 THEN f
        ELSE [i \in 1..Len(d) |->
                 f[i] \/ GtRoot(n * (m2 - 2 * d[i]), 2 * lo, D)
                      \/ GtRoot(n * (2 * d[i] - m2), 2 * hi, D)]

\* the clipping branch taken whatever self.sigclip is
DoesClip_always(self) == TRUE

\* `if self.sigclip:`
DoesClip(self) == self.sigclip

\* the mean class returning the median
MeanBackground_calc_background_median(d, m) == ma_median(d, m)

MeanBackground_calc_background(d, m) == ma_mean(d, m)

\* np.median in place of np.ma.median: the mask is ignored
MedianBackground_calc_background_unmasked(d, m) == ma_median(d, NoMask(d))

MedianBackground_calc_background(d, m) == ma_median(d, m)

\* the two statistics exchanged
MMMBackground_calc_background_exchanged(d, m) ==
    Minus(Times(<<3, 1>>, ma_mean(d, m)), Times(<<2, 1>>, ma_median(d, m)))

MMMBackground_calc_background(d, m) ==
    Minus(Times(<<3, 1>>, ma_median(d, m)), Times(<<2, 1>>, ma_mean(d, m)))

\* `<=` in place of `<` at the 0.3 threshold
SExtractorBackground_calc_background_le(d, m) ==
    LET _median == ma_median(d, m)
        _mean == ma_mean(d, m)
        _std == ma_std(d, m)
    IN  IF Truth(EqZero(_std)) THEN <<_mean, FALSE>>
        ELSE IF ~IsMasked(_std)
                /\ ~AbsOverRootMore(Minus(_mean, _median), _std, <<3, 10>>)
             THEN <<Minus(Times(<<5, 2>>, _median), Times(<<3, 2>>, _mean)),
                    TRUE>>
        ELSE <<_median, TRUE>>

\* returns <<value, whether the division by _std was evaluated>>
SExtractorBackground_calc_background(d, m) ==
    LET _median == ma_median(d, m)
        _mean == ma_mean(d, m)
        _std == ma_std(d, m)
    IN  IF Truth(EqZero(_std)) THEN <<_mean, FALSE>>
        ELSE IF Truth(AbsOverRootLess(Minus(_mean, _median), _std, <<3, 10>>))
             THEN <<Minus(Times(<<5, 2>>, _median), Times(<<3, 2>>, _mean)),
                    TRUE>>
        ELSE <<_median, TRUE>>

BiweightLocationBackground_calc_background(self, d, m) ==
    biweight_location(d, m, self.c, self.M)

\* np.std in place of np.ma.std: the mask is ignored
StdBackgroundRMS_calc_background_rms_unmasked(d, m) == ma_std(d, NoMask(d))

StdBackgroundRMS_calc_background_rms(d, m) == ma_std(d, m)

MADStdBackgroundRMS_calc_background_rms(d, m) == mad_std(d, m)

BiweightMidvarianceBackgroundRMS_calc_background_rms(self, d, m) ==
    biweight_midvariance(d, m, self.c, self.M)

\* The last statement(s) of the method of self's class, on data d with mask m
Formula(self, d, m) ==
    CASE self.kind = "MeanBackground" ->
             MeanBackground_calc_background(d, m)
      [] self.kind = "MedianBackground" ->
             MedianBackground_calc_background(d, m)
      [] self.kind = "MMMBackground" ->
             MMMBackground_calc_background(d, m)
      [] self.kind = "SExtractorBackground" ->
             SExtractorBackground_calc_background(d, m)[1]
      [] self.kind = "BiweightLocationBackground" ->
             BiweightLocationBackground_calc_background(self, d, m)
      [] self.kind = "StdBackgroundRMS" ->
             StdBackgroundRMS_calc_background_rms(d, m)
      [] self.kind = "MADStdBackgroundRMS" ->
             MADStdBackgroundRMS_calc_background_rms(d, m)
      [] self.kind = "BiweightMidvarianceBackgroundRMS" ->
             BiweightMidvarianceBackgroundRMS_calc_background_rms(self, d, m)

Divides(self, d, m) ==
    self.kind = "SExtractorBackground"
    /\ SExtractorBackground_calc_background(d, m)[2]

\* the wrapper storing the defaulted override back into the instance
SelfAfterCall_storing(self) ==
    [self EXCEPT !.sigma_lower = IF @ = None THEN Some(self.sigma) ELSE @]

\* No method assigns to a field of self.
SelfAfterCall(self) == self

-----------------------------------------------------------------------------
(* The whole method as one function of the instance and the array.         *)

RECURSIVE sigma_clip_loop(_, _, _, _, _)
sigma_clip_loop(d, f, k, n, last) ==
    IF count(d, f) # last /\ (k.iters = None \/ n < k.iters[1])
    THEN sigma_clip_loop(d, perform_clip(d, f, k.lo, k.hi), k, n + 1,
                         count(d, f))
    ELSE f

Estimate(self, a) ==
    LET f == IF DoesClip(self)
             THEN sigma_clip_loop(a.data, a.mask,
                                  sigma_clip_defaults(sigma_clip_call(self)),
                                  0, count(a.data, a.mask) + 1)
             ELSE a.mask
    IN  Formula(self, a.data, f)

-----------------------------------------------------------------------------
(* Configurations and inputs.                                              *)

Sigmas == {1, DefaultSigma}
SigmaOverrides == {None, Some(2)}
IterCaps == {None, Some(1), Some(DefaultIters)}
Guesses == {None, Some(1)}

AllConfigs ==
    {BackgroundBase(k, sc, s, sl, su, it, DefaultC(k), M) :
        k \in Kinds, sc \in BOOLEAN, s \in Sigmas, sl \in SigmaOverrides,
        su \in SigmaOverrides, it \in IterCaps, M \in Guesses}

\* only the biweight classes take an initial guess M
Configs == {c \in AllConfigs : HasM(c.kind) \/ c.M = None}

IsDefault(self) ==
    /\ self.sigclip
    /\ self.sigma = DefaultSigma
    /\ self.sigma_lower = None
    /\ self.sigma_upper = None
    /\ self.iters = Some(DefaultIters)

Array(d, m) == [data |-> d, mask |-> m]
Unmasked(d) == Array(d, NoMask(d))

SeqsUpTo(S, n) == UNION {[1..k -> S] : k \in 0..n}

SmallInputs ==
    {Array(d, m) : <<d, m>> \in
        {p \in SeqsUpTo(0..MaxVal, MaxLen) \X SeqsUpTo(BOOLEAN, MaxLen) :
            Len(p[1]) = Len(p[2])}}

OutlierData == <<1, 2, 3, 4, 5, 100>>
Outlier8 == <<0, 0, 0, 0, 0, 0, 0, 1>>
Cascade5 == <<0, 0, 0, 1, 5>>
Skew3 == <<0, 3, 3>>
Mode4 == <<0, 1, 1, 3>>
Boundary18 == <<0, 0, 0, 0, 0, 0, 1, 2, 2, 3, 3, 3, 3, 3, 3, 3, 5, 5>>
Masked4 == Array(<<0, 0, 2, 9>>, <<FALSE, FALSE, FALSE, TRUE>>)

SpecialInputs ==
    {Unmasked(OutlierData), Unmasked(Outlier8), Unmasked(Cascade5),
     Unmasked(Skew3), Unmasked(Mode4), Unmasked(Boundary18), Masked4}

Inputs == SmallInputs \cup SpecialInputs

ProbeInputs == {Unmasked(Cascade5), Masked4, Unmasked(Skew3)}

RepeatConfigs ==
    {c \in Configs : c.sigma_lower = None /\ c.sigma_upper = None
                     /\ c.M = None}

-----------------------------------------------------------------------------
(* The state machine.                                                      *)

EmptyArray == Array(<<>>, <<>>)
NoKw == [lo |-> 0, hi |-> 0, iters |-> None]

InitWith(C, P) ==
    /\ est \in C
    /\ est0 = est
    /\ probe \in P
    /\ seen = None
    /\ phase = 0
    /\ input = EmptyArray
    /\ arg = EmptyArray
    /\ pc = "idle"
    /\ filtered = <<>>
    /\ kw = NoKw
    /\ niter = 0
    /\ lastrej = 0
    /\ clipcalls = 0
    /\ result = Masked
    /\ divided = FALSE

Init == InitWith(Configs, {None})

InitRepeat == InitWith(RepeatConfigs, {Some(p) : p \in ProbeInputs})

\* calc_background(data) / calc_background_rms(data) is entered: the
\* `if self.sigclip` statement, and with it the entry of sigma_clip, which
\* copies the array and sets up its loop.
Call(a) ==
    /\ pc = "idle"
    /\ input' = a
    /\ arg' = a
    /\ est' = SelfAfterCall(est)
    /\ filtered' = a.mask
    /\ niter' = 0
    /\ result' = Masked
    /\ divided' = FALSE
    /\ IF DoesClip(est)
       THEN /\ pc' = "clip"
            /\ clipcalls' = 1
            /\ kw' = sigma_clip_defaults(sigma_clip_call(est))
            /\ lastrej' = count(a.data, a.mask) + 1
       ELSE /\ pc' = "formula"
            /\ clipcalls' = 0
            /\ kw' = NoKw
            /\ lastrej' = 0
    /\ UNCHANGED <<est0, probe, seen, phase>>

\* whether the clipping loop goes round again
Continues ==
    /\ count(input.data, filtered) # lastrej
    /\ (IF kw.iters = None THEN TRUE ELSE niter < kw.iters[1])

PerformClip ==
    /\ pc = "clip"
    /\ Continues
    /\ lastrej' = count(input.data, filtered)
    /\ filtered' = perform_clip(input.data, filtered, kw.lo, kw.hi)
    /\ niter' = niter + 1
    /\ UNCHANGED <<est, est0, input, arg, pc, kw, clipcalls, result, divided,
                   probe, seen, phase>>

\* sigma_clip returns the filtered array, which the method binds to `data`
SigmaClipReturn ==
    /\ pc = "clip"
    /\ ~Continues
    /\ pc' = "formula"
    /\ UNCHANGED <<est, est0, input, arg, filtered, kw, niter, lastrej,
                   clipcalls, result, divided, probe, seen, phase>>

\* the formula of the class, and the return
Return ==
    /\ pc = "formula"
    /\ result' = Formula(est, input.data, filtered)
    /\ divided' = Divides(est, input.data, filtered)
    /\ pc' = "done"
    /\ seen' = IF probe # None /\ seen = None /\ arg = probe[1]
               THEN Some(result') ELSE seen
    /\ phase' = IF probe = None THEN 0
                ELSE IF arg = probe[1]
                     THEN (IF phase = 0 THEN 1 ELSE IF phase = 2 THEN 3 ELSE phase)
                ELSE (IF phase = 1 THEN 2 ELSE phase)
    /\ UNCHANGED <<est, est0, input, arg, filtered, kw, niter, lastrej,
                   clipcalls, probe>>

\* The caller has its scalar and lets go of the array; the instance is kept
\* for the next call.
Release ==
    /\ pc = "done"
    /\ pc' = "idle"
    /\ input' = EmptyArray
    /\ arg' = EmptyArray
    /\ filtered' = <<>>
    /\ kw' = NoKw
    /\ niter' = 0
    /\ lastrej' = 0
    /\ clipcalls' = 0
    /\ result' = Masked
    /\ divided' = FALSE
    /\ UNCHANGED <<est, est0, probe, seen, phase>>

Next ==
    \/ \E a \in Inputs : Call(a)
    \/ PerformClip
    \/ SigmaClipReturn
    \/ Return
    \/ Release

Spec == Init /\ [][Next]_vars

SpecRepeat == InitRepeat /\ [][Next]_vars

-----------------------------------------------------------------------------
(* Properties.                                                             *)

\* the unmasked values of the caller's array, and the values left after the
\* optional clipping step
Raw == compressed(arg.data, arg.mask)
Left == compressed(arg.data, filtered)

Returned(kind) == pc = "done" /\ est.kind = kind

C2_DocstringRule ==
    Returned("SExtractorBackground") =>
        LET n == Len(Left)
            S == Sum(Left)
            m2 == Median2(Left)
            D == Disp(Left)
            k == 2 * S - n * m2
        IN  (n > 0 /\ D > 0) =>
                IF k > 0 /\ 25 * k * k > 9 * D
                THEN result = Num(Rat(m2, 2))
                ELSE result = Num(Rat(5 * n * m2 - 6 * S, 4 * n))

\* a default-configured (sigclip on, sigma=3, no overrides, iters=5) call on
\* [1,2,3,4,5,100] has returned
OutlierCall ==
    /\ pc = "done"
    /\ arg = Unmasked(OutlierData)
    /\ IsDefault(est)

\* C3 as stated: on [1,2,3,4,5,100] the clipping excludes 100 and every
\* estimator returns its statistic over [1,2,3,4,5].
C3_OutlierExcluded ==
    OutlierCall =>
        /\ filtered[6]
        /\ result = Formula(est, <<1, 2, 3, 4, 5>>, NoMask(<<1, 2, 3, 4, 5>>))

\* C3 amended: on [1,2,3,4,5,100] with sigma=3 the clipping excludes
\* nothing (100 < 3.5 + 3*36.17), so every estimator returns its statistic
\* over all six values: mean 115/6, median 7/2, MMM -167/6, SExtractor 7/2,
\* std sqrt(47105/36), MAD std 1.4826*1.5, the biweights over the six.
C3_OutlierKept ==
    OutlierCall =>
        /\ filtered = NoMask(OutlierData)
        /\ CASE est.kind = "MeanBackground" -> result = <<"num", 115, 6>>
             [] est.kind = "MedianBackground" -> result = <<"num", 7, 2>>
             [] est.kind = "MMMBackground" -> result = <<"num", -167, 6>>
             [] est.kind = "SExtractorBackground" -> result = <<"num", 7, 2>>
             [] est.kind = "StdBackgroundRMS" -> result = <<"sqrt", 47105, 36>>
             [] est.kind = "MADStdBackgroundRMS" ->
                    result = <<"num", 22239, 10000>>
             [] est.kind = "BiweightLocationBackground" ->
                    result = <<"biweight_location", OutlierData, est.c, est.M>>
             [] est.kind = "BiweightMidvarianceBackgroundRMS" ->
                    result = <<"biweight_midvariance", OutlierData, est.c,
                               est.M>>

C3_Witness ==
    /\ OutlierCall
    /\ est.kind = "MeanBackground"
    /\ niter = 1
    /\ result = <<"num", 115, 6>>

\* C4 as stated: for unmasked non-empty data, MMMBackground returns
\* 3*median - 2*mean of the input as given, default-constructed or with
\* sigclip=False.
C4_MMMOverInput ==
    (/\ Returned("MMMBackground")
     /\ IsDefault(est) \/ ~est.sigclip
     /\ arg.mask = NoMask(arg.data)
     /\ Len(arg.data) > 0) =>
        result = Num(Rat(3 * Len(Raw) * Median2(Raw) - 4 * Sum(Raw),
                         2 * Len(Raw)))

\* C4 amended: MMMBackground returns 3*median - 2*mean over the data left
\* after the optional clipping step, which is the input as given when
\* sigclip=False (a default-constructed instance clips first).
C4_MMMOverLeft ==
    Returned("MMMBackground") =>
        /\ Len(Left) > 0 =>
             result = Num(Rat(3 * Len(Left) * Median2(Left) - 4 * Sum(Left),
                              2 * Len(Left)))
        /\ ~est.sigclip => Left = Raw

C4_Witness ==
    /\ Returned("MMMBackground")
    /\ ~est.sigclip
    /\ arg = Unmasked(Mode4)
    /\ result = <<"num", 1, 2>>

\* C5: with sigclip=False the clipping step is never invoked and the result
\* is the class's formula on the raw input with its own mask, whatever
\* sigma, sigma_lower, sigma_upper and iters are; with sigclip=True the
\* clipping step is invoked exactly once per call, before the formula.
C5_ClipOnlyWhenAsked ==
    pc # "idle" =>
        IF est.sigclip
        THEN /\ clipcalls = 1
             /\ pc = "clip" => result = Masked
        ELSE /\ clipcalls = 0
             /\ niter = 0
             /\ pc # "clip"
             /\ filtered = arg.mask
             /\ pc = "done" =>
                  \A s \in Sigmas, sl \in SigmaOverrides,
                     su \in SigmaOverrides, it \in IterCaps :
                       result = Formula([est EXCEPT !.sigma = s,
                                                    !.sigma_lower = sl,
                                                    !.sigma_upper = su,
                                                    !.iters = it],
                                        arg.data, arg.mask)

C5_Witness ==
    /\ Returned("MeanBackground")
    /\ ~est.sigclip
    /\ est.sigma = DefaultSigma
    /\ arg = Unmasked(Outlier8)
    /\ clipcalls = 0
    /\ result = <<"num", 1, 8>>

\* the array passed has no unmasked element (all masked, or zero length)
Degenerate == \A i \in 1..Len(arg.data) : arg.mask[i]

\* C6: a call on an all-masked or zero-length array goes on to its return
\* (there is always a next step until it has returned) and returns the
\* masked value, for every class and configuration.
C6_DegenerateReturnsMasked ==
    (pc # "idle" /\ Degenerate) =>
        /\ pc \in {"clip", "formula"} =>
              ENABLED (PerformClip \/ SigmaClipReturn \/ Return)
        /\ pc = "done" => result = Masked

C6_Witness ==
    /\ Returned("SExtractorBackground")
    /\ est.sigclip
    /\ Len(arg.data) > 0
    /\ Degenerate
    /\ result = Masked

\* C7: no call changes a field of the instance or the caller's data and
\* mask, and a later call with the same input returns the same result as
\* the first one, whatever was called in between.
C7_CallsArePure ==
    /\ est = est0
    /\ pc # "idle" => input = arg
    /\ (pc = "done" /\ probe # None /\ seen # None /\ arg = probe[1]) =>
          result = seen[1]

\* C7 witness: the probe returned, another input returned, and the probe
\* (an array the clipping changes) has returned again
C7_Witness ==
    /\ pc = "done"
    /\ phase = 3
    /\ est.sigclip
    /\ arg = probe[1]
    /\ filtered # arg.mask
    /\ result = seen[1]

\* C8: the lower threshold in effect in the clipping step is sigma_lower
\* when it was set and sigma otherwise, and likewise the upper threshold.
C8_ThresholdsInEffect ==
    (pc # "idle" /\ clipcalls > 0) =>
        /\ kw.lo = IF est.sigma_lower # None THEN est.sigma_lower[1]
                   ELSE est.sigma
        /\ kw.hi = IF est.sigma_upper # None THEN est.sigma_upper[1]
                   ELSE est.sigma

C8_Witness ==
    /\ pc = "clip"
    /\ niter = 1
    /\ est.sigma = 1
    /\ est.sigma_lower = Some(2)
    /\ est.sigma_upper = None
    /\ kw.lo = 2
    /\ kw.hi = 1
    /\ arg = Unmasked(Cascade5)
    /\ filtered # arg.mask

\* C9: the clipping step terminates.  With a cap k it performs at most k
\* iterations; every iteration but the last strictly reduces the number of
\* unmasked elements, so after i iterations at most count - (i - 1) are
\* left and there are at most count + 1 iterations; and when the step has
\* ended, either the cap was reached or a further iteration would exclude
\* nothing.
C9_ClippingTerminates ==
    (pc # "idle" /\ clipcalls > 0) =>
        /\ est.iters # None => niter <= est.iters[1]
        /\ niter >= 1 => Len(Left) + (niter - 1) <= Len(Raw)
        /\ niter <= Len(Raw) + 1
        /\ pc \in {"formula", "done"} =>
              \/ est.iters # None /\ niter = est.iters[1]
              \/ perform_clip(arg.data, filtered,
                    IF est.sigma_lower # None THEN est.sigma_lower[1]
                    ELSE est.sigma,
                    IF est.sigma_upper # None THEN est.sigma_upper[1]
                    ELSE est.sigma) = filtered

C9_Witness ==
    /\ pc = "formula"
    /\ clipcalls = 1
    /\ est.iters = None
    /\ arg = Unmasked(Cascade5)
    /\ niter = 3
    /\ Left = <<0, 0, 0>>

\* the caller's array with v stored under every masked element
Under(a, v) ==
    Array([i \in 1..Len(a.data) |-> IF a.mask[i] THEN v ELSE a.data[i]],
          a.mask)

\* C10: an element masked in the input stays masked through the clipping
\* step, and the value stored under it does not change the result.
C10_MaskedNeverContribute ==
    pc # "idle" =>
        /\ \A i \in 1..Len(arg.data) : arg.mask[i] => filtered[i]
        /\ pc = "done" =>
              \A v \in 0..(MaxVal + 1) : result = Estimate(est, Under(arg, v))

C10_Witness ==
    /\ Returned("MedianBackground")
    /\ est.sigclip
    /\ arg = Masked4
    /\ filtered = <<FALSE, FALSE, TRUE, TRUE>>
    /\ result = <<"num", 0, 1>>

=============================================================================
